---------------------------- MODULE Spec2Model ----------------------------
(***************************************************************************)
(* cloudboard: a clipboard <-> MQTT bridge (src/src/main.rs).              *)
(*                                                                         *)
(* Three threads share the process:                                        *)
(*   - the watcher thread, which runs Manager::on_clipboard_change for     *)
(*     every clipboard-change notification of the OS;                      *)
(*   - the publish thread, which drains the mpsc channel into              *)
(*     client.publish;                                                     *)
(*   - the main thread, which iterates the MQTT connection's events and    *)
(*     writes every valid UTF-8 payload to the clipboard.                  *)
(* Text is a sequence of bytes (a Rust String is its UTF-8 bytes).         *)
(***************************************************************************)
EXTENDS Naturals, Sequences, FiniteSets

(***************************************************************************)
(* Bounds of the model.                                                    *)
(***************************************************************************)
\* number of clipboard changes the user makes
MaxLocal == 2
\* number of events the main loop takes from the MQTT connection
MaxInbound == 2
\* SpecPipe: number of clipboard changes the user makes
MaxPipeLocal == 12
\* SpecPipe: number of publishes the broker delivers
MaxPipeInbound == 1
\* SpecPipe: notifications that may wait when the user changes the clipboard
MaxPipePending == 1
\* SpecNet: number of clipboard changes the users make, on all devices together
MaxNetLocal == 3
\* SpecNet: notifications and messages in the whole system up to which a
\* publish that the broker copies to several subscribers is followed; a
\* publish that goes to one subscriber adds nothing and is always followed
MaxNetLoad == 4

(***************************************************************************)
(* Program constants.                                                      *)
(***************************************************************************)
\* Client::new(mqtt_opt, 10): the capacity of the client's request channel
RequestCap == 10

(***************************************************************************)
(* Values.                                                                 *)
(***************************************************************************)
\* Result<String, _>: Ok(t) or Err
Ok(t) == [ok |-> TRUE, text |-> t]
Err == [ok |-> FALSE, text |-> <<>>]

\* String::new()
EmptyString == <<>>

\* what the user copies: "", "a", or something that is not text
LocalTexts == {<<>>, <<97>>}
NonText == Err
LocalValues == {Ok(t) : t \in LocalTexts} \cup {NonText}

\* payloads the broker delivers: "a", U+00E9 (2 bytes), and a truncated U+00E9
Payloads == {<<97>>, <<195, 169>>, <<195>>}

\* the events connection.iter() yields
PublishEvent(p) == [type |-> "publish", payload |-> p]
ErrorEvent == [type |-> "error", payload |-> <<>>]
OtherEvent == [type |-> "other", payload |-> <<>>]
Events == {PublishEvent(p) : p \in Payloads} \cup {ErrorEvent, OtherEvent}

(***************************************************************************)
(* String::from_utf8: the payload is a String iff it is well-formed UTF-8  *)
(* (no overlong forms, no surrogates, nothing above U+10FFFF); the String  *)
(* holds the same bytes.                                                   *)
(***************************************************************************)
IsCont(b) == b >= 128 /\ b <= 191

\* the width of the well-formed sequence that starts at bytes[i], 0 if none
Utf8Width(bytes, i) ==
    LET n == Len(bytes)
        b0 == bytes[i]
        b1 == IF i + 1 <= n THEN bytes[i + 1] ELSE 0
        b2 == IF i + 2 <= n THEN bytes[i + 2] ELSE 0
        b3 == IF i + 3 <= n THEN bytes[i + 3] ELSE 0
    IN  IF b0 < 128 THEN 1
        ELSE IF b0 >= 194 /\ b0 <= 223 THEN (IF IsCont(b1) THEN 2 ELSE 0)
        ELSE IF b0 = 224 THEN (IF b1 >= 160 /\ b1 <= 191 /\ IsCont(b2) THEN 3 ELSE 0)
        ELSE IF b0 = 237 THEN (IF b1 >= 128 /\ b1 <= 159 /\ IsCont(b2) THEN 3 ELSE 0)
        ELSE IF b0 >= 225 /\ b0 <= 239 THEN (IF IsCont(b1) /\ IsCont(b2) THEN 3 ELSE 0)
        ELSE IF b0 = 240 THEN
            (IF b1 >= 144 /\ b1 <= 191 /\ IsCont(b2) /\ IsCont(b3) THEN 4 ELSE 0)
        ELSE IF b0 >= 241 /\ b0 <= 243 THEN
            (IF IsCont(b1) /\ IsCont(b2) /\ IsCont(b3) THEN 4 ELSE 0)
        ELSE IF b0 = 244 THEN
            (IF b1 >= 128 /\ b1 <= 143 /\ IsCont(b2) /\ IsCont(b3) THEN 4 ELSE 0)
        ELSE 0

RECURSIVE ValidFrom(_, _)
ValidFrom(bytes, i) ==
    IF i > Len(bytes) THEN TRUE
    ELSE LET w == Utf8Width(bytes, i)
         IN  w > 0 /\ ValidFrom(bytes, i + w)

FromUtf8(bytes) == IF ValidFrom(bytes, 1) THEN Ok(bytes) ELSE Err


(***************************************************************************)
(* State.                                                                  *)
(***************************************************************************)
VARIABLES
    clipboard,        \* the OS clipboard: Ok(text), or NonText
    clipOrigin,       \* who mutated the clipboard last: "start", "local", "inbound"
    pending,          \* change notifications the OS has raised and the watcher has not run
    nLocal,           \* clipboard changes the user has made
    current_content,  \* Manager.current_content
    queue,            \* the mpsc channel publish_sender -> publish_receiver
    ctxLock,          \* holder of the Mutex<ClipboardContext>: "none", "watcher", "inbound"
    wpc,              \* watcher thread: "idle", "wait", "locked", "read"
    wtext,            \* the result of ctx.get_text() while the handler runs, else Err
    watching,         \* the watcher has not been told to stop
    pstate,           \* publish thread: "recv", "publish", "break", "stopped"
    pcontent,         \* the content the publish thread holds between recv and publish
    published,        \* the contents passed to client.publish, in order
    outbound,         \* the contents passed to publish_sender.send, in order
    fed,              \* the texts on_clipboard_change has read, in order
    ipos,             \* notifications connection.iter() has yielded
    nText,            \* of these, the publishes whose payload is UTF-8
    nBad,             \* of these, the publishes whose payload is not UTF-8
    nErr,             \* of these, the Err(err) notifications
    iterDone,         \* connection.iter() has ended (the connection is gone for good)
    ipc,              \* main thread: "start", "idle", "lock", "locked", "exit", and
                      \* the ends of the process: "exited", "panicked", "killed"
    icontent,         \* the decoded payload while the main loop writes it
    errlog            \* the error! lines logged so far

(***************************************************************************)
(* State of the publish pipeline (specification SpecPipe): the same three  *)
(* threads without the histories, with the client's bounded request        *)
(* channel between client.publish and the connection's event loop.         *)
(***************************************************************************)
VARIABLES
    p_clipboard,        \* the OS clipboard (always text here)
    p_pending,          \* change notifications not yet run
    p_nLocal,           \* clipboard changes the user has made
    p_current_content,  \* Manager.current_content
    p_queue,            \* the mpsc channel
    p_ctxLock,          \* holder of the Mutex<ClipboardContext>
    p_wpc,              \* watcher thread: "idle", "locked", "read"
    p_wtext,            \* the result of ctx.get_text() while the handler runs
    p_pstate,           \* publish thread: "recv", "publish", "break", "stopped"
    p_pcontent,         \* the content the publish thread holds
    p_requests,         \* the client's request channel: "subscribe", then contents
    p_ipc,              \* main thread: "idle", "lock", "locked", "exited"
    p_icontent,         \* the decoded payload while the main loop writes it
    p_nIn,              \* publishes the broker has delivered
    p_failed            \* client.publish has returned Err

(***************************************************************************)
(* State of the user's devices (specification SpecNet): every device runs  *)
(* one bridge; all are subscribed to the topic they publish to.            *)
(***************************************************************************)
VARIABLES
    n_devices,          \* the devices on which the user runs a bridge
    n_clipboard,        \* device -> what its OS clipboard holds
    n_current_content,  \* device -> Manager.current_content
    n_pending,          \* device -> change notifications not yet handled
    n_queue,            \* device -> contents of its mpsc channel
    n_hand,             \* device -> what its publish thread received and has not
                        \* handed to client.publish yet (Err: nothing)
    n_requests,         \* device -> publishes in its client's request channel
    n_inbox,            \* device -> publishes the broker has in line for it
    n_taken,            \* device -> the text main took from connection.iter()
                        \* and has not written yet (Err: nothing)
    n_nLocal,           \* clipboard changes made by the users so far
    n_delivered         \* device -> connection.iter() has yielded it a publish

netVars == <<n_devices, n_clipboard, n_current_content, n_pending, n_queue, n_hand, n_requests,
             n_inbox, n_taken, n_nLocal, n_delivered>>

pipeVars == <<p_clipboard, p_pending, p_nLocal, p_current_content, p_queue, p_ctxLock,
              p_wpc, p_wtext, p_pstate, p_pcontent, p_requests, p_ipc,
              p_icontent, p_nIn, p_failed>>

bridgeVars == <<clipboard, clipOrigin, pending, nLocal, current_content, queue, ctxLock,
                wpc, wtext, watching, pstate, pcontent, published, outbound, fed,
                ipos, nText, nBad, nErr, iterDone, ipc, icontent, errlog>>

\* what the specification Spec leaves alone
otherVars == <<pipeVars, netVars>>

vars == <<bridgeVars, pipeVars, netVars>>

envVars == <<clipboard, clipOrigin, pending, nLocal>>
watcherVars == <<wpc, wtext>>
publishVars == <<pstate, pcontent, published>>
inboundVars == <<ipos, nText, nBad, nErr, iterDone, ipc, icontent>>

\* Manager::new: current_content: String::new()
ManagerNewMutant == <<97>>
ManagerNew == EmptyString

\* Mutex::lock returns once nobody holds the mutex
CanLockMutant(holder) == TRUE
CanLock(holder) == holder = "none"

\* the process runs until main returns or panics, or a signal ends it
Ended == ipc \in {"exited", "panicked", "killed"}
Running == ~Ended

BridgeInit ==
    /\ clipboard = NonText
    /\ clipOrigin = "start"
    /\ pending = 0
    /\ nLocal = 0
    /\ current_content = ManagerNew
    /\ queue = <<>>
    /\ ctxLock = "none"
    /\ wpc = "idle"
    /\ wtext = Err
    /\ watching = TRUE
    /\ pstate = "recv"
    /\ pcontent = EmptyString
    /\ published = <<>>
    /\ outbound = <<>>
    /\ fed = <<>>
    /\ ipos = 0
    /\ nText = 0
    /\ nBad = 0
    /\ nErr = 0
    /\ iterDone = FALSE
    /\ ipc = "start"
    /\ icontent = EmptyString
    /\ errlog = {}

\* the client's request channel after client.subscribe
SubscribeRequest == <<"subscribe">>

\* the pipeline after main has subscribed and spawned the publish thread
PipeInit ==
    /\ p_clipboard = Ok(EmptyString)
    /\ p_pending = 0
    /\ p_nLocal = 0
    /\ p_current_content = ManagerNew
    /\ p_queue = <<>>
    /\ p_ctxLock = "none"
    /\ p_wpc = "idle"
    /\ p_wtext = Err
    /\ p_pstate = "recv"
    /\ p_pcontent = EmptyString
    /\ p_requests = SubscribeRequest
    /\ p_ipc = "idle"
    /\ p_icontent = EmptyString
    /\ p_nIn = 0
    /\ p_failed = FALSE

(***************************************************************************)
(* The user: copies something; the OS raises a change notification.        *)
(***************************************************************************)
LocalChange(v) ==
    /\ Running
    /\ nLocal < MaxLocal
    /\ nLocal' = nLocal + 1
    /\ clipboard' = v
    /\ clipOrigin' = "local"
    /\ pending' = pending + 1
    /\ UNCHANGED <<current_content, queue, ctxLock, watcherVars, watching,
                   publishVars, outbound, fed, inboundVars, errlog>>
    /\ UNCHANGED otherVars

(***************************************************************************)
(* Watcher thread: Manager::on_clipboard_change.                           *)
(***************************************************************************)
\* the watcher thread calls the handler for a notification; whether it still
\* does so after stop() is the watcher's affair, and nothing in the handler
\* asks
WatcherCall ==
    /\ Running
    /\ wpc = "idle"
    /\ pending > 0
    /\ pending' = pending - 1
    /\ wpc' = "wait"
    /\ UNCHANGED <<clipboard, clipOrigin, nLocal, current_content, queue, ctxLock, wtext,
                   watching, publishVars, outbound, fed, inboundVars, errlog>>
    /\ UNCHANGED otherVars

\* self.ctx.lock().unwrap() returns, also when the watcher was stopped meanwhile
WatcherLock ==
    /\ Running
    /\ wpc = "wait"
    /\ CanLock(ctxLock)
    /\ UNCHANGED pending
    /\ ctxLock' = "watcher"
    /\ wpc' = "locked"
    /\ UNCHANGED <<clipboard, clipOrigin, nLocal, current_content, queue, wtext,
                   watching, publishVars, outbound, fed, inboundVars, errlog>>
    /\ UNCHANGED otherVars

\* ctx.get_text(): the text, or an error when the clipboard holds no text
\* or cannot be opened
GetText(clip) == IF clip.ok THEN {clip, Err} ELSE {Err}

WatcherRead ==
    /\ Running
    /\ wpc = "locked"
    /\ wtext' \in GetText(clipboard)
    /\ wpc' = "read"
    /\ UNCHANGED <<envVars, current_content, queue, ctxLock, watching,
                   publishVars, outbound, fed, inboundVars, errlog>>
    /\ UNCHANGED otherVars

\* text != self.current_content
ChangeDeduplicatorMutant(observed, lastSeen) == TRUE
ChangeDeduplicator(observed, lastSeen) == observed # lastSeen

\* if let Ok(text) = ctx.get_text() { if text != self.current_content { .. } }
ForwardMutant(res, cur) == ChangeDeduplicator(res.text, cur)
Forward(res, cur) == res.ok /\ ChangeDeduplicator(res.text, cur)

\* mutant: the snapshot is updated only when the send succeeded
WatcherDedupSendFirst ==
    /\ Running
    /\ wpc = "read"
    /\ fed' = IF wtext.ok THEN Append(fed, wtext.text) ELSE fed
    /\ IF Forward(wtext, current_content)
       THEN /\ current_content' = IF pstate # "stopped" THEN wtext.text
                                 ELSE current_content
            /\ outbound' = Append(outbound, wtext.text)
            /\ IF pstate # "stopped"
               THEN queue' = Append(queue, wtext.text) /\ UNCHANGED errlog
               ELSE errlog' = errlog \cup {"send"} /\ UNCHANGED queue
       ELSE UNCHANGED <<current_content, outbound, queue, errlog>>
    /\ ctxLock' = "none"
    /\ wpc' = "idle"
    /\ wtext' = Err
    /\ UNCHANGED <<envVars, watching, publishVars, inboundVars>>
    /\ UNCHANGED otherVars

\* the rest of the handler: compare, update, send; the guard drops on return
WatcherDedup ==
    /\ Running
    /\ wpc = "read"
    /\ fed' = IF wtext.ok THEN Append(fed, wtext.text) ELSE fed
    /\ IF Forward(wtext, current_content)
       THEN /\ current_content' = wtext.text
            /\ outbound' = Append(outbound, wtext.text)
            /\ IF pstate # "stopped"
               THEN queue' = Append(queue, wtext.text) /\ UNCHANGED errlog
               ELSE errlog' = errlog \cup {"send"} /\ UNCHANGED queue
       ELSE UNCHANGED <<current_content, outbound, queue, errlog>>
    /\ ctxLock' = "none"
    /\ wpc' = "idle"
    /\ wtext' = Err
    /\ UNCHANGED <<envVars, watching, publishVars, inboundVars>>
    /\ UNCHANGED otherVars

(***************************************************************************)
(* Publish thread: while let Ok(content) = publish_receiver.recv().        *)
(***************************************************************************)
\* Receiver::recv takes the oldest message
RecvMutant(q) == [content |-> q[Len(q)], rest |-> SubSeq(q, 1, Len(q) - 1)]
Recv(q) == [content |-> Head(q), rest |-> Tail(q)]

PublishRecv ==
    /\ Running
    /\ ipc # "start"
    /\ pstate = "recv"
    /\ queue # <<>>
    /\ pcontent' = Recv(queue).content
    /\ queue' = Recv(queue).rest
    /\ pstate' = "publish"
    /\ UNCHANGED <<envVars, current_content, ctxLock, watcherVars, watching,
                   published, outbound, fed, inboundVars, errlog>>
    /\ UNCHANGED otherVars

\* after client.publish: Err is logged and breaks the loop, Ok receives again
AfterPublishMutant(ok) == "recv"
AfterPublish(ok) == IF ok THEN "recv" ELSE "break"

\* client.publish succeeds or fails; a failure is logged
PublishCall ==
    /\ Running
    /\ pstate = "publish"
    /\ published' = Append(published, pcontent)
    /\ \E ok \in BOOLEAN :
        /\ pstate' = AfterPublish(ok)
        /\ errlog' = IF ok THEN errlog ELSE errlog \cup {"publish"}
    /\ pcontent' = EmptyString
    /\ UNCHANGED <<envVars, current_content, queue, ctxLock, watcherVars, watching,
                   outbound, fed, inboundVars>>
    /\ UNCHANGED otherVars

\* break: the thread's closure ends; the receiver is dropped with what the
\* channel still holds (sends made until now succeeded), and the client too
PublishBreak ==
    /\ Running
    /\ pstate = "break"
    /\ pstate' = "stopped"
    /\ queue' = <<>>
    /\ UNCHANGED <<envVars, current_content, ctxLock, watcherVars, watching, pcontent,
                   published, outbound, fed, inboundVars, errlog>>
    /\ UNCHANGED otherVars

(***************************************************************************)
(* Main thread: for notification in connection.iter().                     *)
(***************************************************************************)
\* the match on the notification: "apply" a decoded text, "log" an error,
\* "skip" everything else
DispatchMutant(e) ==
    IF e.type = "publish" THEN "apply"
    ELSE IF e.type = "error" THEN "log"
    ELSE "skip"
Dispatch(e) ==
    IF e.type = "publish" THEN (IF FromUtf8(e.payload).ok THEN "apply" ELSE "skip")
    ELSE IF e.type = "error" THEN "log"
    ELSE "skip"

\* client.subscribe(..).unwrap(), then the publish thread is spawned; the
\* watcher thread runs already. A failed subscribe panics main.
Subscribe ==
    /\ ipc = "start"
    /\ \E ok \in BOOLEAN : ipc' = IF ok THEN "idle" ELSE "panicked"
    /\ UNCHANGED <<envVars, current_content, queue, ctxLock, watcherVars, watching,
                   publishVars, outbound, fed, ipos, nText, nBad, nErr, iterDone, icontent, errlog>>
    /\ UNCHANGED otherVars

\* where the loop goes after an Err(err) notification
AfterErrorMutant == "exit"
AfterError == "idle"

InboundNext(e) ==
    /\ ipc = "idle"
    /\ ipos < MaxInbound
    /\ ipos' = ipos + 1
    /\ nText' = IF e.type = "publish" /\ ValidFrom(e.payload, 1) THEN nText + 1 ELSE nText
    /\ nBad' = IF e.type = "publish" /\ ~ValidFrom(e.payload, 1) THEN nBad + 1 ELSE nBad
    /\ nErr' = IF e.type = "error" THEN nErr + 1 ELSE nErr
    /\ CASE Dispatch(e) = "apply" ->
                /\ icontent' = FromUtf8(e.payload).text
                /\ ipc' = "lock"
                /\ UNCHANGED errlog
          [] Dispatch(e) = "log" ->
                /\ errlog' = errlog \cup {"recv"}
                /\ ipc' = AfterError
                /\ UNCHANGED icontent
          [] OTHER ->
                UNCHANGED <<ipc, icontent, errlog>>
    /\ UNCHANGED <<envVars, current_content, queue, ctxLock, watcherVars, watching,
                   publishVars, outbound, fed, iterDone>>
    /\ UNCHANGED otherVars

\* ctx.lock().unwrap()
InboundLock ==
    /\ ipc = "lock"
    /\ CanLock(ctxLock)
    /\ ctxLock' = "inbound"
    /\ ipc' = "locked"
    /\ UNCHANGED <<envVars, current_content, queue, watcherVars, watching,
                   publishVars, outbound, fed, ipos, nText, nBad, nErr, iterDone, icontent, errlog>>
    /\ UNCHANGED otherVars

\* ctx.set_text(content); the guard drops at the end of the block
InboundWrite ==
    /\ ipc = "locked"
    /\ \E ok \in BOOLEAN :
        IF ok
        THEN /\ clipboard' = Ok(icontent)
             /\ clipOrigin' = "inbound"
             /\ pending' = pending + 1
             /\ UNCHANGED errlog
        ELSE /\ errlog' = errlog \cup {"set_text"}
             /\ UNCHANGED <<clipboard, clipOrigin, pending>>
    /\ ctxLock' = "none"
    /\ ipc' = "idle"
    /\ icontent' = EmptyString
    /\ UNCHANGED <<nLocal, current_content, queue, watcherVars, watching,
                   publishVars, outbound, fed, ipos, nText, nBad, nErr, iterDone>>
    /\ UNCHANGED otherVars

\* mutant: the loop is entered again after the iterator ended (a reconnect)
InboundEndReconnect ==
    /\ ipc = "idle"
    /\ iterDone' = TRUE
    /\ UNCHANGED <<envVars, current_content, queue, ctxLock, watcherVars, watching,
                   publishVars, outbound, fed, ipos, nText, nBad, nErr, ipc, icontent,
                   errlog>>
    /\ UNCHANGED otherVars

\* the iterator ends (the connection is lost); shutdown_channel.stop()
InboundEnd ==
    /\ ipc = "idle"
    /\ iterDone' = TRUE
    /\ watching' = FALSE
    /\ ipc' = "exit"
    /\ UNCHANGED <<envVars, current_content, queue, ctxLock, watcherVars,
                   publishVars, outbound, fed, ipos, nText, nBad, nErr, icontent, errlog>>
    /\ UNCHANGED otherVars

\* main returns: the process and its threads end
Exit ==
    /\ ipc = "exit"
    /\ ipc' = "exited"
    /\ UNCHANGED <<envVars, current_content, queue, ctxLock, watcherVars, watching,
                   publishVars, outbound, fed, ipos, nText, nBad, nErr, iterDone, icontent, errlog>>
    /\ UNCHANGED otherVars

\* a signal ends the process (main installs no handler)
Kill ==
    /\ Running
    /\ ipc' = "killed"
    /\ UNCHANGED <<envVars, current_content, queue, ctxLock, watcherVars, watching,
                   publishVars, outbound, fed, ipos, nText, nBad, nErr, iterDone, icontent, errlog>>
    /\ UNCHANGED otherVars

Next ==
    \/ \E v \in LocalValues : LocalChange(v)
    \/ WatcherCall
    \/ WatcherLock
    \/ WatcherRead
    \/ WatcherDedup
    \/ PublishRecv
    \/ PublishCall
    \/ PublishBreak
    \/ Subscribe
    \/ \E e \in Events : InboundNext(e)
    \/ InboundLock
    \/ InboundWrite
    \/ InboundEnd
    \/ Exit
    \/ Kill

\* the devices of one user
Devices == {1, 2}

\* no clipboard change yet, nothing on its way
NetFresh ==
    /\ n_clipboard = [i \in Devices |-> NonText]
    /\ n_current_content = [i \in Devices |-> ManagerNew]
    /\ n_pending = [i \in Devices |-> 0]
    /\ n_queue = [i \in Devices |-> <<>>]
    /\ n_hand = [i \in Devices |-> Err]
    /\ n_requests = [i \in Devices |-> <<>>]
    /\ n_inbox = [i \in Devices |-> <<>>]
    /\ n_taken = [i \in Devices |-> Err]
    /\ n_nLocal = 0
    /\ n_delivered = [i \in Devices |-> FALSE]

\* a bridge is started and subscribed on every device
NetInit == n_devices = Devices /\ NetFresh

\* a bridge is started and subscribed on one device only
OneInit == n_devices = {1} /\ NetFresh

Init == BridgeInit /\ PipeInit /\ NetInit

InitOne == BridgeInit /\ PipeInit /\ OneInit

Spec == Init /\ [][Next]_vars


(***************************************************************************)
(* SpecPipe: the publish pipeline. client.publish puts a request into the  *)
(* client's channel of RequestCap places and blocks while it is full; the  *)
(* channel is emptied only by the connection's event loop, which runs when *)
(* main asks connection.iter() for the next notification.                  *)
(***************************************************************************)
PipeTexts == {<<97>>, <<98>>}
PipePayloads == {<<97>>}

PipeRunning == p_ipc # "exited"

\* mpsc::channel() is unbounded: send never waits
SendReadyBounded(q) == Len(q) < 1
SendReady(q) == TRUE

PipeLocalChange(t) ==
    /\ PipeRunning
    /\ p_nLocal < MaxPipeLocal
    /\ p_pending < MaxPipePending
    /\ p_nLocal' = p_nLocal + 1
    /\ p_clipboard' = Ok(t)
    /\ p_pending' = p_pending + 1
    /\ UNCHANGED <<p_current_content, p_queue, p_ctxLock, p_wpc, p_wtext, p_pstate,
                   p_pcontent, p_requests, p_ipc, p_icontent, p_nIn,
                   p_failed, bridgeVars, netVars>>

PipeWatcherLock ==
    /\ PipeRunning
    /\ p_wpc = "idle"
    /\ p_pending > 0
    /\ CanLock(p_ctxLock)
    /\ p_pending' = p_pending - 1
    /\ p_ctxLock' = "watcher"
    /\ p_wpc' = "locked"
    /\ UNCHANGED <<p_clipboard, p_nLocal, p_current_content, p_queue, p_wtext, p_pstate,
                   p_pcontent, p_requests, p_ipc, p_icontent, p_nIn,
                   p_failed, bridgeVars, netVars>>

PipeWatcherRead ==
    /\ PipeRunning
    /\ p_wpc = "locked"
    /\ p_wtext' \in GetText(p_clipboard)
    /\ p_wpc' = "read"
    /\ UNCHANGED <<p_clipboard, p_pending, p_nLocal, p_current_content, p_queue,
                   p_ctxLock, p_pstate, p_pcontent, p_requests, p_ipc,
                   p_icontent, p_nIn, p_failed, bridgeVars, netVars>>

\* compare, update, send (waiting, with the lock held, if the send must wait)
PipeWatcherDedup ==
    /\ PipeRunning
    /\ p_wpc = "read"
    /\ IF Forward(p_wtext, p_current_content)
       THEN /\ p_current_content' = p_wtext.text
            /\ IF p_pstate # "stopped"
               THEN /\ SendReady(p_queue)
                    /\ p_queue' = Append(p_queue, p_wtext.text)
               ELSE UNCHANGED p_queue
       ELSE UNCHANGED <<p_current_content, p_queue>>
    /\ p_ctxLock' = "none"
    /\ p_wpc' = "idle"
    /\ p_wtext' = Err
    /\ UNCHANGED <<p_clipboard, p_pending, p_nLocal, p_pstate, p_pcontent, p_requests,
                   p_ipc, p_icontent, p_nIn, p_failed, bridgeVars, netVars>>

PipePublishRecv ==
    /\ PipeRunning
    /\ p_pstate = "recv"
    /\ p_queue # <<>>
    /\ p_pcontent' = Recv(p_queue).content
    /\ p_queue' = Recv(p_queue).rest
    /\ p_pstate' = "publish"
    /\ UNCHANGED <<p_clipboard, p_pending, p_nLocal, p_current_content, p_ctxLock,
                   p_wpc, p_wtext, p_requests, p_ipc, p_icontent, p_nIn,
                   p_failed, bridgeVars, netVars>>

\* client.publish returns Ok once the request channel has taken the request
PipePublishOk ==
    /\ PipeRunning
    /\ p_pstate = "publish"
    /\ Len(p_requests) < RequestCap
    /\ p_requests' = Append(p_requests, p_pcontent)
    /\ p_pstate' = AfterPublish(TRUE)
    /\ p_pcontent' = EmptyString
    /\ UNCHANGED <<p_clipboard, p_pending, p_nLocal, p_current_content, p_queue,
                   p_ctxLock, p_wpc, p_wtext, p_ipc, p_icontent, p_nIn, p_failed,
                   bridgeVars, netVars>>

\* client.publish returns Err, which is logged
PipePublishFail ==
    /\ PipeRunning
    /\ p_pstate = "publish"
    /\ p_failed' = TRUE
    /\ p_pstate' = AfterPublish(FALSE)
    /\ p_pcontent' = EmptyString
    /\ UNCHANGED <<p_clipboard, p_pending, p_nLocal, p_current_content, p_queue,
                   p_ctxLock, p_wpc, p_wtext, p_requests, p_ipc, p_icontent, p_nIn,
                   bridgeVars, netVars>>

\* break: the receiver is dropped with what the channel still holds
PipePublishBreak ==
    /\ PipeRunning
    /\ p_pstate = "break"
    /\ p_pstate' = "stopped"
    /\ p_queue' = <<>>
    /\ UNCHANGED <<p_clipboard, p_pending, p_nLocal, p_current_content, p_ctxLock,
                   p_wpc, p_wtext, p_pcontent, p_requests, p_ipc, p_icontent, p_nIn,
                   p_failed, bridgeVars, netVars>>

\* an event loop that leaves the requests where they are
PipePollRequestMutant ==
    /\ p_ipc = "idle"
    /\ p_requests # <<>>
    /\ UNCHANGED vars

\* connection.iter() yields an Outgoing notification: the event loop has taken
\* the oldest request; the match arm is _ => {}
PipePollRequest ==
    /\ p_ipc = "idle"
    /\ p_requests # <<>>
    /\ p_requests' = Tail(p_requests)
    /\ UNCHANGED <<p_clipboard, p_pending, p_nLocal, p_current_content, p_queue,
                   p_ctxLock, p_wpc, p_wtext, p_pstate, p_pcontent, p_ipc,
                   p_icontent, p_nIn, p_failed, bridgeVars, netVars>>

\* connection.iter() yields an incoming publish
PipePollPublish(payload) ==
    /\ p_ipc = "idle"
    /\ p_nIn < MaxPipeInbound
    /\ p_nIn' = p_nIn + 1
    /\ IF Dispatch(PublishEvent(payload)) = "apply"
       THEN p_icontent' = FromUtf8(payload).text /\ p_ipc' = "lock"
       ELSE UNCHANGED <<p_icontent, p_ipc>>
    /\ UNCHANGED <<p_clipboard, p_pending, p_nLocal, p_current_content, p_queue,
                   p_ctxLock, p_wpc, p_wtext, p_pstate, p_pcontent, p_requests,
                   p_failed, bridgeVars, netVars>>

PipeInboundLock ==
    /\ p_ipc = "lock"
    /\ CanLock(p_ctxLock)
    /\ p_ctxLock' = "inbound"
    /\ p_ipc' = "locked"
    /\ UNCHANGED <<p_clipboard, p_pending, p_nLocal, p_current_content, p_queue,
                   p_wpc, p_wtext, p_pstate, p_pcontent, p_requests, p_icontent, p_nIn, p_failed, bridgeVars, netVars>>

PipeInboundWrite ==
    /\ p_ipc = "locked"
    /\ \E ok \in BOOLEAN :
        IF ok
        THEN p_clipboard' = Ok(p_icontent) /\ p_pending' = p_pending + 1
        ELSE UNCHANGED <<p_clipboard, p_pending>>
    /\ p_ctxLock' = "none"
    /\ p_ipc' = "idle"
    /\ p_icontent' = EmptyString
    /\ UNCHANGED <<p_nLocal, p_current_content, p_queue, p_wpc, p_wtext, p_pstate,
                   p_pcontent, p_requests, p_nIn, p_failed, bridgeVars, netVars>>

\* the iterator ends; main stops the watcher and returns
PipeEnd ==
    /\ p_ipc = "idle"
    /\ p_ipc' = "exited"
    /\ UNCHANGED <<p_clipboard, p_pending, p_nLocal, p_current_content, p_queue,
                   p_ctxLock, p_wpc, p_wtext, p_pstate, p_pcontent, p_requests,
                   p_icontent, p_nIn, p_failed, bridgeVars, netVars>>

\* the steps of the three threads that need nothing from outside the process
PipeThreadStep ==
    \/ PipeWatcherLock
    \/ PipeWatcherRead
    \/ PipeWatcherDedup
    \/ PipePublishRecv
    \/ PipePublishOk
    \/ PipePublishBreak
    \/ PipePollRequest
    \/ PipeInboundLock
    \/ PipeInboundWrite

PipeNext ==
    \/ \E t \in PipeTexts : PipeLocalChange(t)
    \/ PipeWatcherLock
    \/ PipeWatcherRead
    \/ PipeWatcherDedup
    \/ PipePublishRecv
    \/ PipePublishOk
    \/ PipePublishFail
    \/ PipePublishBreak
    \/ PipePollRequest
    \/ \E payload \in PipePayloads : PipePollPublish(payload)
    \/ PipeInboundLock
    \/ PipeInboundWrite
    \/ PipeEnd

SpecPipe == Init /\ [][PipeNext]_vars

\* every thread that can run does run
PipeFairness ==
    /\ WF_vars(PipeWatcherLock)
    /\ WF_vars(PipeWatcherRead)
    /\ WF_vars(PipeWatcherDedup)
    /\ WF_vars(PipePublishRecv)
    /\ WF_vars(PipePublishOk)
    /\ WF_vars(PipePublishBreak)
    /\ WF_vars(PipePollRequest)
    /\ WF_vars(PipeInboundLock)
    /\ WF_vars(PipeInboundWrite)

FairPipe == SpecPipe /\ PipeFairness

(***************************************************************************)
(* SpecNet: the devices of one user. Nothing fails: every clipboard read   *)
(* of a text succeeds, every publish is accepted, every clipboard write    *)
(* succeeds and raises a change notification, and the broker puts every    *)
(* publish in line for every subscriber, the publisher included, in one    *)
(* order. The watcher's handler holds the clipboard lock from its first to *)
(* its last line and is one step; main's ctx.lock() and set_text are one   *)
(* step, after the step that takes the message.                            *)
(* With several bridges every publish comes back to each of them and may   *)
(* be published again by each, so the messages can multiply without end;   *)
(* such runs are followed up to MaxNetLoad. With one bridge nothing        *)
(* multiplies and no run is cut short.                                     *)
(***************************************************************************)
NetTexts == {<<97>>, <<98>>}

\* notifications and messages of device i that are not yet dealt with
NetLoadOf(i) ==
    n_pending[i] + Len(n_queue[i]) + (IF n_hand[i].ok THEN 1 ELSE 0)
        + Len(n_requests[i]) + Len(n_inbox[i]) + (IF n_taken[i].ok THEN 1 ELSE 0)

RECURSIVE NetLoad(_)
NetLoad(D) ==
    IF D = {} THEN 0
    ELSE LET i == CHOOSE j \in D : TRUE IN NetLoadOf(i) + NetLoad(D \ {i})

\* the user of device i copies the text t
NetLocalChange(i, t) ==
    /\ i \in n_devices
    /\ n_nLocal < MaxNetLocal
    /\ n_nLocal' = n_nLocal + 1
    /\ n_clipboard' = [n_clipboard EXCEPT ![i] = Ok(t)]
    /\ n_pending' = [n_pending EXCEPT ![i] = @ + 1]
    /\ UNCHANGED <<n_current_content, n_queue, n_hand, n_requests, n_inbox, n_taken,
                   n_delivered, n_devices, bridgeVars, pipeVars>>

\* Manager::on_clipboard_change on device i, from lock to unlock
NetOnClipboardChange(i) ==
    /\ n_pending[i] > 0
    /\ n_pending' = [n_pending EXCEPT ![i] = @ - 1]
    /\ IF Forward(n_clipboard[i], n_current_content[i])
       THEN /\ n_current_content' = [n_current_content EXCEPT ![i] = n_clipboard[i].text]
            /\ n_queue' = [n_queue EXCEPT ![i] = Append(@, n_clipboard[i].text)]
       ELSE UNCHANGED <<n_current_content, n_queue>>
    /\ UNCHANGED <<n_clipboard, n_hand, n_requests, n_inbox, n_taken, n_nLocal,
                   n_delivered, n_devices, bridgeVars, pipeVars>>

\* the publish thread of device i receives the oldest message
NetPublishRecv(i) ==
    /\ ~n_hand[i].ok
    /\ n_queue[i] # <<>>
    /\ n_hand' = [n_hand EXCEPT ![i] = Ok(Recv(n_queue[i]).content)]
    /\ n_queue' = [n_queue EXCEPT ![i] = Recv(@).rest]
    /\ UNCHANGED <<n_clipboard, n_current_content, n_pending, n_requests, n_inbox,
                   n_taken, n_nLocal, n_delivered, n_devices, bridgeVars, pipeVars>>

\* client.publish returns Ok: the request is in the client's channel
NetPublishCall(i) ==
    /\ n_hand[i].ok
    /\ Len(n_requests[i]) < RequestCap
    /\ n_requests' = [n_requests EXCEPT ![i] = Append(@, n_hand[i].text)]
    /\ n_hand' = [n_hand EXCEPT ![i] = Err]
    /\ UNCHANGED <<n_clipboard, n_current_content, n_pending, n_queue, n_inbox,
                   n_taken, n_nLocal, n_delivered, n_devices, bridgeVars, pipeVars>>

\* the subscribers to clipboard/<user>: every bridge, the publisher too
NetRoute(i) == n_devices

\* main of device i is at connection.iter(): the event loop sends the oldest
\* request and the broker puts it in line for every subscriber; the
\* notification yielded is an outgoing one, arm _ => {}
NetPoll(i) ==
    /\ ~n_taken[i].ok
    /\ n_requests[i] # <<>>
    /\ Cardinality(NetRoute(i)) > 1 => NetLoad(Devices) <= MaxNetLoad
    /\ n_requests' = [n_requests EXCEPT ![i] = Tail(@)]
    /\ n_inbox' = [j \in Devices |->
                     IF j \in NetRoute(i)
                     THEN Append(n_inbox[j], Head(n_requests[i]))
                     ELSE n_inbox[j]]
    /\ UNCHANGED <<n_clipboard, n_current_content, n_pending, n_queue, n_hand,
                   n_taken, n_nLocal, n_delivered, n_devices, bridgeVars, pipeVars>>

\* connection.iter() of device i yields Incoming(Publish(p)); a payload
\* that is UTF-8 is kept for the write
NetTake(i) ==
    /\ ~n_taken[i].ok
    /\ n_inbox[i] # <<>>
    /\ n_inbox' = [n_inbox EXCEPT ![i] = Tail(@)]
    /\ n_delivered' = [n_delivered EXCEPT ![i] = TRUE]
    /\ n_taken' = [n_taken EXCEPT ![i] =
                       IF Dispatch(PublishEvent(Head(n_inbox[i]))) = "apply"
                       THEN FromUtf8(Head(n_inbox[i]))
                       ELSE Err]
    /\ UNCHANGED <<n_clipboard, n_current_content, n_pending, n_queue, n_hand,
                   n_requests, n_nLocal, n_devices, bridgeVars, pipeVars>>

\* an inbound loop that lets the message go and writes nothing
NetWriteMutant(i) ==
    /\ n_taken[i].ok
    /\ n_taken' = [n_taken EXCEPT ![i] = Err]
    /\ UNCHANGED <<n_clipboard, n_pending, n_current_content, n_queue, n_hand,
                   n_requests, n_inbox, n_nLocal, n_delivered, n_devices, bridgeVars, pipeVars>>

\* main of device i locks and writes the clipboard; the OS raises a change
\* notification; current_content stays
NetWrite(i) ==
    /\ n_taken[i].ok
    /\ n_clipboard' = [n_clipboard EXCEPT ![i] = Ok(n_taken[i].text)]
    /\ n_pending' = [n_pending EXCEPT ![i] = @ + 1]
    /\ n_taken' = [n_taken EXCEPT ![i] = Err]
    /\ UNCHANGED <<n_current_content, n_queue, n_hand, n_requests, n_inbox, n_nLocal,
                   n_delivered, n_devices, bridgeVars, pipeVars>>

NetNext ==
    \/ \E i \in Devices, t \in NetTexts : NetLocalChange(i, t)
    \/ \E i \in Devices : NetOnClipboardChange(i)
    \/ \E i \in Devices : NetPublishRecv(i)
    \/ \E i \in Devices : NetPublishCall(i)
    \/ \E i \in Devices : NetPoll(i)
    \/ \E i \in Devices : NetTake(i)
    \/ \E i \in Devices : NetWrite(i)

SpecNet == Init /\ [][NetNext]_vars

\* the watcher, the publish thread and the inbound loop of every device run
NetFairness ==
    \A i \in Devices :
        /\ WF_vars(NetOnClipboardChange(i))
        /\ WF_vars(NetPublishRecv(i))
        /\ WF_vars(NetPublishCall(i))
        /\ WF_vars(NetPoll(i))
        /\ WF_vars(NetTake(i))
        /\ WF_vars(NetWrite(i))

FairNet == SpecNet /\ NetFairness

\* the same with one bridge: every publish comes back to its publisher alone
SpecOne == InitOne /\ [][NetNext]_vars

FairOne == SpecOne /\ NetFairness

(***************************************************************************)
(* Helpers of the properties.                                              *)
(***************************************************************************)
IsPrefix(s, t) == Len(s) <= Len(t) /\ SubSeq(t, 1, Len(s)) = s

\* the handler is between taking the lock and returning
WatcherInCS == wpc \in {"locked", "read"}
\* the main loop is between taking the lock and dropping it
InboundInCS == ipc = "locked"

\* the step in which on_clipboard_change compares, updates, sends and returns
DedupStep == wpc = "read" /\ wpc' = "idle"

(***************************************************************************)
(* C1. Inbound rule ordering: whenever the outbound rule runs after a      *)
(* successful inbound write of c with no local change in between,          *)
(* snapshot.text (current_content) is c.                                   *)
(***************************************************************************)
C1_InboundOrdering ==
    (wpc = "locked" /\ clipOrigin = "inbound") => current_content = clipboard.text

(***************************************************************************)
(* C2. No echo: once the inbound rule has written c to the clipboard, a    *)
(* run of the outbound rule that reads c sends no OutboundMessage.         *)
(***************************************************************************)
C2_NoEcho ==
    [][(DedupStep /\ clipOrigin = "inbound" /\ wtext = clipboard)
        => outbound' = outbound]_vars

(***************************************************************************)
(* C3. Dedup idempotence: the outbound rule hands OutboundMessage{t} to    *)
(* the queue iff the text t it read differs from snapshot.text, and then   *)
(* snapshot.text = t; reading the text it read last time changes neither   *)
(* the snapshot nor the queue. (A send to a channel whose receiver is gone *)
(* is the enqueue attempt; the channel then keeps nothing.)                *)
(***************************************************************************)
C3_Dedup ==
    [][(DedupStep /\ wtext.ok) =>
        /\ IF wtext.text # current_content
           THEN /\ current_content' = wtext.text
                /\ outbound' = Append(outbound, wtext.text)
                /\ pstate # "stopped" => queue' = Append(queue, wtext.text)
                /\ pstate = "stopped" => queue' = queue
           ELSE UNCHANGED <<current_content, outbound, queue>>
        /\ (fed # <<>> /\ fed[Len(fed)] = wtext.text)
              => UNCHANGED <<current_content, outbound, queue>>]_vars

\* the same text was read twice in a row and sent once
C3_Witness ==
    /\ Len(fed) = 2
    /\ fed[1] = fed[2]
    /\ outbound = <<fed[1]>>
    /\ wpc = "idle"

(***************************************************************************)
(* C4. On a freshly started bridge, reading a and then b, a # b, sends     *)
(* exactly two OutboundMessages, a then b.                                 *)
(***************************************************************************)
C4_FirstTwoAnyText ==
    (Len(fed) = 2 /\ fed[1] # fed[2]) => outbound = fed

(***************************************************************************)
(* C4, amended. The same, for a that is not the empty string (the          *)
(* snapshot starts as the empty string, so a first text "" is not new).    *)
(***************************************************************************)
C4_FirstTwo ==
    (Len(fed) = 2 /\ fed[1] # fed[2] /\ fed[1] # EmptyString) => outbound = fed

C4_Witness ==
    /\ Len(fed) = 2
    /\ fed[1] # fed[2]
    /\ fed[1] # EmptyString
    /\ outbound = fed

(***************************************************************************)
(* C5. Publish ordering: the contents passed to client.publish are a       *)
(* prefix of the contents the watcher sent, in the same order; while the   *)
(* publish thread runs, what was published, what it holds and what the     *)
(* channel holds are together exactly what was sent.                       *)
(***************************************************************************)
C5_PublishOrder ==
    /\ IsPrefix(published, outbound)
    /\ pstate # "stopped" =>
         published \o (IF pstate = "publish" THEN <<pcontent>> ELSE <<>>) \o queue
            = outbound

\* two different contents were published
C5_Witness ==
    /\ Len(published) >= 2
    /\ published[1] # published[2]

\* while the process runs, a context is in its critical section exactly when
\* it holds the lock
LockInv ==
    Running =>
        /\ ~(WatcherInCS /\ InboundInCS)
        /\ WatcherInCS <=> ctxLock = "watcher"
        /\ InboundInCS <=> ctxLock = "inbound"

(***************************************************************************)
(* C6. Mutual exclusion: the outbound rule and the inbound write are never *)
(* in their critical sections together, each holds the clipboard lock in   *)
(* its own, and between the outbound rule's read and its return no inbound *)
(* write happens.                                                          *)
(***************************************************************************)
C6_MutualExclusion ==
    /\ []LockInv
    /\ [][wpc = "read" => ~(ipc = "locked" /\ ipc' = "idle")]_vars

\* the main loop waits for the lock while the handler holds it
C6_Witness ==
    /\ wpc = "read"
    /\ ipc = "lock"
    /\ ctxLock = "watcher"

(***************************************************************************)
(* C7. A payload that is not UTF-8 is dropped: no clipboard write, the     *)
(* snapshot and the queue unchanged, the loop back at its head; valid      *)
(* messages after it are still written to the clipboard.                   *)
(***************************************************************************)
C7_BadPayloadDropped ==
    [][/\ nBad' = nBad + 1 =>
            /\ UNCHANGED <<clipboard, clipOrigin, pending, current_content, queue,
                           outbound, ctxLock, watching, errlog>>
            /\ ipc' = "idle"
       /\ (nBad > 0 /\ nText' = nText + 1) => ipc' = "lock"
       /\ (nBad > 0 /\ ipc = "locked" /\ ipc' = "idle") =>
            \/ clipboard' = Ok(icontent) /\ clipOrigin' = "inbound"
            \/ "set_text" \in errlog']_vars

\* the first payload was dropped and the second, valid one is in the clipboard
C7_Witness ==
    /\ ipos = 2
    /\ nBad = 1
    /\ nText = 1
    /\ ipc = "idle"
    /\ clipOrigin = "inbound"
    /\ clipboard = Ok(<<195, 169>>)

(***************************************************************************)
(* C8. When the clipboard read fails, the outbound rule does nothing: the  *)
(* snapshot is unchanged, nothing is sent, nothing reaches the publish     *)
(* thread, and the handler returns so that later notifications are run.    *)
(***************************************************************************)
C8_ReadFailureNoOp ==
    [][(DedupStep /\ ~wtext.ok) =>
        /\ UNCHANGED <<current_content, queue, outbound, pstate, pcontent,
                       published, errlog>>
        /\ ctxLock' = "none"]_vars

\* the one notification so far found no text and was run to its end
C8_Witness ==
    /\ nLocal = 1
    /\ ipos = 0
    /\ clipboard = NonText
    /\ pending = 0
    /\ wpc = "idle"
    /\ current_content = EmptyString
    /\ outbound = <<>>

(***************************************************************************)
(* C9. After the first failure of client.publish the publish thread has    *)
(* stopped: no further publish call is made, whatever was queued or is     *)
(* sent later.                                                             *)
(***************************************************************************)
C9_PublishStops ==
    [][("publish" \in errlog) =>
          (published' = published /\ pstate' \in {"break", "stopped"})]_vars

\* a publish failed and the watcher sent another message afterwards
C9_Witness ==
    /\ "publish" \in errlog
    /\ "send" \in errlog
    /\ Len(outbound) > Len(published)

(***************************************************************************)
(* C10. An Err(err) notification is logged and skipped: the clipboard, the *)
(* snapshot and the queue are unchanged, the loop is back at its head, and *)
(* valid messages after it are still handed to the clipboard write.        *)
(***************************************************************************)
C10_ErrorSkipped ==
    [][/\ nErr' = nErr + 1 =>
            /\ "recv" \in errlog'
            /\ UNCHANGED <<clipboard, clipOrigin, pending, current_content, queue,
                           outbound, ctxLock, watching>>
            /\ ipc' = "idle"
       /\ (nErr > 0 /\ nText' = nText + 1) => ipc' = "lock"]_vars

\* the first notification was an error and the second is being written
C10_Witness ==
    /\ ipos = 2
    /\ nErr = 1
    /\ nText = 1
    /\ ipc = "locked"


(***************************************************************************)
(* C11. When the connection is lost (its iterator ends), the read loop     *)
(* ends and main goes on to return: the loop is not entered again (no      *)
(* reconnect), no further notification is taken and no inbound write       *)
(* happens.                                                                *)
(***************************************************************************)
C11_ConnectionLossExits ==
    /\ [](iterDone => ipc \in {"exit", "exited", "killed"})
    /\ [](ipc = "exit" => ENABLED Exit)
    /\ [][iterDone =>
            /\ ipos' = ipos
            /\ ctxLock' # "inbound"
            /\ clipOrigin' = "inbound" =>
                    (clipOrigin = "inbound" /\ clipboard' = clipboard)]_vars

\* the connection was lost after one notification and main has returned
C11_Witness ==
    /\ iterDone
    /\ ipc = "exited"
    /\ ipos = 1

(***************************************************************************)
(* C12. On normal termination the watcher is told to stop before the       *)
(* process exits, and once the loop has ended (ShuttingDown) neither rule  *)
(* is applied: no notification is taken from the connection, no inbound    *)
(* write is made, and the handler of the outbound rule does not run its    *)
(* compare, update and send.                                               *)
(***************************************************************************)
C12_NoRuleAfterShutdown ==
    [][(ipc = "exit" \/ ipc = "exited") =>
            /\ ~watching
            /\ ipos' = ipos
            /\ ctxLock' # "inbound"
            /\ ~DedupStep
            /\ UNCHANGED <<current_content, outbound>>]_vars

(***************************************************************************)
(* C13. Whenever the process has ended, by whatever path, the watcher has  *)
(* been stopped.                                                           *)
(***************************************************************************)
C13_WatcherReleased ==
    Ended => ~watching


(***************************************************************************)
(* C18. Snapshot/queue invariant: snapshot.text (current_content) is the   *)
(* content of the OutboundMessage sent last, or the empty string if none   *)
(* was sent, also when the send failed because the publish thread has      *)
(* stopped; so no two messages sent in a row carry equal content.          *)
(***************************************************************************)
C18_SnapshotIsLastSent ==
    /\ current_content =
         IF outbound = <<>> THEN EmptyString ELSE outbound[Len(outbound)]
    /\ \A i \in 1..(Len(outbound) - 1) : outbound[i] # outbound[i + 1]

\* a send failed after the publish thread stopped, and the snapshot followed it
C18_Witness ==
    /\ "send" \in errlog
    /\ Len(outbound) >= 2
    /\ Len(published) = 1
    /\ current_content = outbound[Len(outbound)]
    /\ clipOrigin = "inbound"


\* a message waits in the channel or in the publish thread's hand
PipeBacklog == p_queue # <<>> \/ p_pstate = "publish"

(***************************************************************************)
(* C15. Publish liveness: if no publish has failed, every OutboundMessage  *)
(* the watcher sent has been taken by client.publish by the time the       *)
(* process ends.                                                           *)
(***************************************************************************)
C15_AllPublished ==
    (p_ipc = "exited" /\ ~p_failed) => ~PipeBacklog

(***************************************************************************)
(* C15, amended. Under fair scheduling, as long as no publish has failed   *)
(* and the event loop has not ended, every OutboundMessage the watcher     *)
(* sent is eventually taken by client.publish, which returns: the publish  *)
(* thread does not wait forever on the full request channel.               *)
(***************************************************************************)
C15_PublishLiveness ==
    /\ p_queue # <<>> ~> (p_pstate = "publish" \/ p_failed \/ p_ipc = "exited")
    /\ p_pstate = "publish" ~> (p_pstate = "recv" \/ p_failed \/ p_ipc = "exited")

\* the publish thread waits on the full request channel
C15_Witness ==
    /\ p_pstate = "publish"
    /\ Len(p_requests) = RequestCap
    /\ p_queue # <<>>
    /\ ~p_failed
    /\ p_ipc = "lock"

\* some thread has work in front of it
PipeWorkPending ==
    \/ p_pending > 0
    \/ p_wpc # "idle"
    \/ p_queue # <<>> /\ p_pstate = "recv"
    \/ p_pstate = "publish"
    \/ p_ipc \in {"lock", "locked"}

(***************************************************************************)
(* C19. Deadlock freedom: while the process runs and a notification, a     *)
(* queued message or an inbound write is pending, one of the three threads *)
(* can take a step; the lock is held only by a thread inside its critical  *)
(* section, and never by the publish thread.                               *)
(***************************************************************************)
C19_DeadlockFree ==
    PipeRunning =>
        /\ PipeWorkPending => ENABLED PipeThreadStep
        /\ p_ctxLock = "watcher" <=> p_wpc \in {"locked", "read"}
        /\ p_ctxLock = "inbound" <=> p_ipc = "locked"
        /\ p_ctxLock \in {"none", "watcher", "inbound"}

\* the request channel is full, the publish thread waits on it, the main loop
\* waits for the lock, and the handler holds the lock
C19_Witness ==
    /\ Len(p_requests) = RequestCap
    /\ p_pstate = "publish"
    /\ p_ipc = "lock"
    /\ p_wpc = "read"
    /\ p_queue # <<>>

(***************************************************************************)
(* C14. Round trip: when device i has detected the local change x and sent *)
(* it, nothing else is waiting or on its way anywhere and the users make   *)
(* no further change, the clipboard of every other device is eventually x. *)
(***************************************************************************)
\* x, sent by device i, is all there is to do
NetOnly(i, x) ==
    /\ n_queue[i] = <<x>>
    /\ NetLoad(Devices) = 1

C14_RoundTrip ==
    \A i \in Devices, x \in NetTexts :
        (n_nLocal = MaxNetLocal /\ NetOnly(i, x))
            ~> \A j \in Devices \ {i} : n_clipboard[j] = Ok(x)

\* the last change of the run has made the round trip to device 2
C14_Witness ==
    /\ n_nLocal = MaxNetLocal
    /\ n_current_content[1] = <<98>>
    /\ n_current_content[2] = <<98>>
    /\ n_clipboard[2] = Ok(<<98>>)
    /\ n_delivered[2]
    /\ NetLoad(Devices) = 0

(***************************************************************************)
(* C16. Quiescence: after finitely many clipboard changes by the users the *)
(* devices come to rest and stay there: no notification waits, no message  *)
(* is queued or on its way.                                                *)
(***************************************************************************)
NetQuiet == NetLoad(Devices) = 0

C16_Quiescence == <>[]NetQuiet

(***************************************************************************)
(* C17. Convergence: in every state at rest in which every device has had  *)
(* a delivery, all devices hold the same clipboard text.                   *)
(***************************************************************************)
C17_Convergence ==
    (NetQuiet /\ \A i \in Devices : n_delivered[i])
        => \A i, j \in Devices : n_clipboard[i] = n_clipboard[j]

=============================================================================
